---- MODULE Spec2Model ----
(***************************************************************************)
(* Model of deepagent-with-ollama: the streaming relay of                  *)
(* DeepAgent.stream_chat / astream_chat (src/core/agent.py), the blocking  *)
(* path chat / achat, and the command line of src/cli.py.                  *)
(*                                                                         *)
(* Text is a sequence of tokens (strings).  Message content and tool       *)
(* output are sequences of one-character tokens, so Len is the number of   *)
(* characters and SubSeq is a Python slice; literal pieces of an f-string  *)
(* are single tokens.  Concatenation of text is \o.                        *)
(***************************************************************************)
EXTENDS Integers, Sequences, FiniteSets

VARIABLES
    messages,   \* the runtime's cumulative message list of the turn (chunk["messages"])
    chunks,     \* history: the snapshots delivered so far in the turn, each a message list
    pc,         \* the generator: "idle", "streaming", "done" (returned), "raised" (an
                \* exception left it), "closed" (abandoned by its consumer)
    failure,    \* NoFailure, or the text of the exception the runtime raised
    frags,      \* frags[s]: what the generator of a session with show_tools = s has yielded
    reply,      \* NoReply, or the text chat/achat returned for the same turn
    args,       \* the parsed command line
    cli,        \* the process: "off", "main", "prompt", "draining", "blocking",
                \* "exited", "killed" (left by an uncaught KeyboardInterrupt)
    agent,      \* "none", or "ready" once DeepAgent(...) returned
    stdout,     \* history: the text printed so far
    exit_code,  \* <<>> while running, <<0>> or <<1>> once exited
    reads,      \* number of input() calls made
    lines,      \* history: the lines input() returned
    queries,    \* history: the texts passed to astream_chat / achat
    event,      \* history: what the last step of the process was
    expression, \* the argument of a call of the calculate tool
    calc_pc,    \* that call: "called", "returned", "raised" (an exception left it)
    evaluated,  \* history: whether the call reached eval(expression)
    result      \* NoReply, or the text calculate returned

rvars == <<messages, chunks, pc, failure, frags, reply>>
cvars == <<args, cli, agent, stdout, exit_code, reads, lines, queries, event>>
tvars == <<expression, calc_pc, evaluated, result>>
vars == <<messages, chunks, pc, failure, frags, reply,
          args, cli, agent, stdout, exit_code, reads, lines, queries, event,
          expression, calc_pc, evaluated, result>>

\* No exception so far, and no value returned so far.
NoFailure == "<no failure>"
NoReply == <<"<no reply>">>

\* ------------------------------------------------------------------ bounds

MaxSnaps == 3          \* snapshots delivered per turn
MaxContent == 2        \* characters of assistant content
ShortLen == 80         \* a tool output below the preview limit
LongLen == 250         \* a tool output above the preview limit
MaxInputs == 2         \* input() calls of one interactive session
MaxCliSnaps == 1       \* snapshots per turn when the turn runs under the command line
MaxExpr == 3           \* characters of an enumerated calculator expression

\* ------------------------------------------------------------------ data

\* tool_output[:100] and len(tool_output) > 100
PreviewLimit == 100

Ellipsis == <<"...">>
UsingPrefix == <<"\n(tool) Using ">>
OutputPrefix == <<"(out) ">>
ErrorPrefix == <<"Error: ">>
Apology == <<"I apologize, but I couldn't generate a proper response.">>

Digit == <<"0", "1", "2", "3", "4", "5", "6", "7", "8", "9">>

\* A text of n characters whose i-th character depends on i.
Fill(n) == [i \in 1..n |-> Digit[(i % 10) + 1]]

Chars == {"H", "e"}

\* inputs = {"messages": [{"role": "user", "content": message}]}
HumanMessage(text) ==
    [type |-> "human", name |-> "", content |-> text, tool_calls |-> <<>>]

AIMessage(text, calls) ==
    [type |-> "ai", name |-> "", content |-> text, tool_calls |-> calls]

\* A tool result: the runtime sets msg.name to the tool's name.
ToolMessage(tool, output) ==
    [type |-> "tool", name |-> tool, content |-> output, tool_calls |-> <<>>]

\* tool_call = {"name": ..., "args": {k: v, ...}}; args keeps insertion order.
CalcCall == [name |-> "calculate", args |-> << <<"expression", "2+2">> >>]
SearchCall == [name |-> "web_search",
               args |-> << <<"query", "tla">>, <<"max_results", "5">> >>]
TimeCall == [name |-> "get_current_time", args |-> <<>>]

CallLists == {<<>>, <<CalcCall>>, <<SearchCall, TimeCall>>}

ToolOutputs == {<<>>, Fill(ShortLen), Fill(PreviewLimit), Fill(PreviewLimit + 1),
                Fill(LongLen)}

AIMessages == {AIMessage(c, tc) : c \in {<<>>, <<"H">>}, tc \in CallLists}
ToolMessages == {ToolMessage("calculate", o) : o \in ToolOutputs}
Reasons == {"connection refused"}

\* ------------------------------------------------------------------ rendering

Last(s) == s[Len(s)]

\* isinstance(final_message, AIMessage)
IsAIMessage(m) == m.type = "ai"

\* hasattr(msg, 'name') and hasattr(msg, 'content') and msg.name
IsToolResult(m) == m.name # ""

\* ", ".join([f"{k}={v}" for k, v in tool_args.items()])
RECURSIVE args_str(_)
args_str(tool_args) ==
    IF tool_args = <<>> THEN <<>>
    ELSE LET kv == <<tool_args[1][1], "=", tool_args[1][2]>>
         IN IF Len(tool_args) = 1 THEN kv
            ELSE kv \o <<", ">> \o args_str(Tail(tool_args))

\* f"\n(tool) Using {tool_name}({args_str})\n"
ToolCallText(tool_call) ==
    UsingPrefix \o <<tool_call.name, "(">> \o args_str(tool_call.args) \o <<")\n">>

\* Preview with the comparison and the slice off by one.
PreviewOffByOne(tool_output) ==
    IF tool_output # <<>> /\ Len(tool_output) >= PreviewLimit
    THEN SubSeq(tool_output, 1, PreviewLimit - 1) \o Ellipsis
    ELSE tool_output

\* if tool_output and len(tool_output) > 100: tool_output = tool_output[:100] + "..."
Preview(tool_output) ==
    IF tool_output # <<>> /\ Len(tool_output) > PreviewLimit
    THEN SubSeq(tool_output, 1, PreviewLimit) \o Ellipsis
    ELSE tool_output

\* f"(out) {msg.name} output: {tool_output}\n"
ToolOutputText(msg) ==
    OutputPrefix \o <<msg.name, " output: ">> \o Preview(msg.content) \o <<"\n">>

\* f"Error: {str(e)}"
ErrorText(reason) == ErrorPrefix \o <<reason>>

\* A fragment is the yielded text; kind, snap (the snapshot it was yielded
\* for), msg (position of the message in chunk["messages"]) and call
\* (position in tool_calls) record where it came from.
Fragment(kind, text, snap, msg, call) ==
    [kind |-> kind, text |-> text, snap |-> snap, msg |-> msg, call |-> call]

\* for tool_call in final_message.tool_calls: yield ...
ToolCallFragments(chunk, snap) ==
    LET final_message == Last(chunk)
    IN [i \in 1..Len(final_message.tool_calls) |->
           Fragment("tool_call", ToolCallText(final_message.tool_calls[i]),
                    snap, Len(chunk), i)]

\* for msg in chunk["messages"]: if ... msg.name: yield ...
RECURSIVE ToolResultFragments(_, _, _)
ToolResultFragments(chunk, snap, upto) ==
    IF upto = 0 THEN <<>>
    ELSE ToolResultFragments(chunk, snap, upto - 1) \o
         (IF IsToolResult(chunk[upto])
          THEN <<Fragment("tool_output", ToolOutputText(chunk[upto]), snap, upto, 0)>>
          ELSE <<>>)

\* ContentFragments with a placeholder yielded for empty content.
ContentFragmentsPlaceholder(chunk, snap) ==
    IF Last(chunk).content # <<>>
    THEN <<Fragment("content", Last(chunk).content, snap, Len(chunk), 0)>>
    ELSE <<Fragment("content", Apology, snap, Len(chunk), 0)>>

\* if final_message.content: yield final_message.content
ContentFragments(chunk, snap) ==
    IF Last(chunk).content # <<>>
    THEN <<Fragment("content", Last(chunk).content, snap, Len(chunk), 0)>>
    ELSE <<>>

\* ProcessChunk with the scan for tool results not gated by show_tools.
ProcessChunkUngated(show_tools, chunk, snap) ==
    IF chunk # <<>> /\ IsAIMessage(Last(chunk))
    THEN (IF show_tools /\ Last(chunk).tool_calls # <<>>
          THEN ToolCallFragments(chunk, snap) ELSE <<>>)
         \o ToolResultFragments(chunk, snap, Len(chunk))
         \o ContentFragments(chunk, snap)
    ELSE <<>>

\* ProcessChunk with the scan for tool results outside the isinstance check.
ProcessChunkAnyLast(show_tools, chunk, snap) ==
    (IF chunk # <<>> /\ IsAIMessage(Last(chunk))
        /\ show_tools /\ Last(chunk).tool_calls # <<>>
     THEN ToolCallFragments(chunk, snap) ELSE <<>>)
    \o (IF show_tools THEN ToolResultFragments(chunk, snap, Len(chunk)) ELSE <<>>)
    \o (IF chunk # <<>> /\ IsAIMessage(Last(chunk))
        THEN ContentFragments(chunk, snap) ELSE <<>>)

\* ProcessChunk yielding the content before the tool fragments.
ProcessChunkContentFirst(show_tools, chunk, snap) ==
    IF chunk # <<>> /\ IsAIMessage(Last(chunk))
    THEN ContentFragments(chunk, snap)
         \o (IF show_tools /\ Last(chunk).tool_calls # <<>>
             THEN ToolCallFragments(chunk, snap) ELSE <<>>)
         \o (IF show_tools THEN ToolResultFragments(chunk, snap, Len(chunk)) ELSE <<>>)
    ELSE <<>>

\* The body of the loop over the stream, for one chunk.
ProcessChunk(show_tools, chunk, snap) ==
    IF chunk # <<>> /\ IsAIMessage(Last(chunk))
    THEN (IF show_tools /\ Last(chunk).tool_calls # <<>>
          THEN ToolCallFragments(chunk, snap) ELSE <<>>)
         \o (IF show_tools THEN ToolResultFragments(chunk, snap, Len(chunk)) ELSE <<>>)
         \o ContentFragments(chunk, snap)
    ELSE <<>>

\* The text of a sequence of fragments, as print(chunk, end="") writes it.
RECURSIVE ConcatText(_)
ConcatText(fs) == IF fs = <<>> THEN <<>> ELSE fs[1].text \o ConcatText(Tail(fs))

\* ------------------------------------------------------------------ the turn

NoQuery == <<"<no query>">>

\* No call of the calculate tool is under way.
NoToolCall ==
    /\ expression = <<>>
    /\ calc_pc = "idle"
    /\ evaluated = FALSE
    /\ result = NoReply

\* A turn on its own: the generator was just started on a query.
Init ==
    /\ messages = <<HumanMessage(<<"q">>)>>
    /\ chunks = <<>>
    /\ pc = "streaming"
    /\ failure = NoFailure
    /\ frags = [s \in BOOLEAN |-> <<>>]
    /\ reply = NoReply
    /\ args = [config |-> FALSE, validate |-> FALSE, query |-> NoQuery,
               no_stream |-> FALSE, show_tools |-> FALSE]
    /\ cli = "off"
    /\ agent = "ready"
    /\ stdout = <<>>
    /\ exit_code = <<>>
    /\ reads = 0
    /\ lines = <<>>
    /\ queries = <<>>
    /\ event = "start"
    /\ NoToolCall

\* The runtime delivers the snapshot `chunk` and the loop body runs on it.
Deliver(chunk) ==
    /\ pc = "streaming"
    /\ messages' = chunk
    /\ chunks' = Append(chunks, chunk)
    /\ frags' = [s \in BOOLEAN |-> frags[s] \o ProcessChunk(s, chunk, Len(chunks) + 1)]
    /\ UNCHANGED <<pc, failure, reply>>

\* A new message was appended to the history.
EmitAppend(m) == Deliver(Append(messages, m))

\* The last AssistantMessage's content grew by one character.
EmitGrow(c) ==
    /\ messages # <<>>
    /\ IsAIMessage(Last(messages))
    /\ Len(Last(messages).content) < MaxContent
    /\ Deliver([messages EXCEPT ![Len(messages)].content = Append(@, c)])

\* The state is delivered again with the same messages.
EmitSame == Deliver(messages)

\* The stream ends: the loop and the generator finish.
Complete ==
    /\ pc = "streaming"
    /\ pc' = "done"
    /\ UNCHANGED <<messages, chunks, failure, frags, reply>>

\* Fail without the except clause: the exception leaves the generator.
FailRaises(reason) ==
    /\ pc = "streaming"
    /\ pc' = "raised"
    /\ failure' = reason
    /\ UNCHANGED <<messages, chunks, frags, reply>>

\* except Exception as e: yield f"Error: {str(e)}"
Fail(reason) ==
    /\ pc = "streaming"
    /\ pc' = "done"
    /\ failure' = reason
    /\ frags' = [s \in BOOLEAN |->
                   Append(frags[s],
                          Fragment("error", ErrorText(reason), Len(chunks) + 1, 0, 0))]
    /\ UNCHANGED <<messages, chunks, reply>>

\* ChatResult returning the content of the last AssistantMessage anywhere in
\* the response, with no apology.
ChatResultLastAI(response, raised) ==
    IF raised # NoFailure THEN ErrorText(raised)
    ELSE IF \E i \in 1..Len(response) : IsAIMessage(response[i])
         THEN response[CHOOSE i \in 1..Len(response) :
                          /\ IsAIMessage(response[i])
                          /\ \A j \in (i + 1)..Len(response) : ~IsAIMessage(response[j])
                      ].content
         ELSE <<>>

\* chat / achat on a turn with the same outcome: invoke returns the final
\* state, or raises what the stream raised.
ChatResult(response, raised) ==
    IF raised # NoFailure THEN ErrorText(raised)
    ELSE IF response # <<>> /\ IsAIMessage(Last(response))
         THEN Last(response).content
         ELSE Apology

achat ==
    /\ pc = "done"
    /\ reply = NoReply
    /\ reply' = ChatResult(messages, failure)
    /\ UNCHANGED <<messages, chunks, pc, failure, frags>>

Next ==
    \/ \E m \in AIMessages \cup ToolMessages :
          Len(chunks) < MaxSnaps /\ EmitAppend(m) /\ UNCHANGED <<cvars, tvars>>
    \/ \E c \in Chars : Len(chunks) < MaxSnaps /\ EmitGrow(c) /\ UNCHANGED <<cvars, tvars>>
    \/ Len(chunks) < MaxSnaps /\ EmitSame /\ UNCHANGED <<cvars, tvars>>
    \/ Complete /\ UNCHANGED <<cvars, tvars>>
    \/ \E r \in Reasons : Fail(r) /\ UNCHANGED <<cvars, tvars>>
    \/ achat /\ UNCHANGED <<cvars, tvars>>

Spec == Init /\ [][Next]_vars

\* ------------------------------------------------------------------ the command line

UpperCase == <<"A", "B", "C", "D", "E", "F", "G", "H", "I", "J", "K", "L", "M",
               "N", "O", "P", "Q", "R", "S", "T", "U", "V", "W", "X", "Y", "Z">>
LowerCase == <<"a", "b", "c", "d", "e", "f", "g", "h", "i", "j", "k", "l", "m",
               "n", "o", "p", "q", "r", "s", "t", "u", "v", "w", "x", "y", "z">>
Whitespace == {" ", "\t", "\n"}

\* str.lower()
Lower(text) ==
    [i \in 1..Len(text) |->
        IF \E k \in 1..Len(UpperCase) : UpperCase[k] = text[i]
        THEN LowerCase[CHOOSE k \in 1..Len(UpperCase) : UpperCase[k] = text[i]]
        ELSE text[i]]

\* str.strip()
RECURSIVE Strip(_)
Strip(text) ==
    IF text = <<>> THEN <<>>
    ELSE IF text[1] \in Whitespace THEN Strip(Tail(text))
    ELSE IF Last(text) \in Whitespace THEN Strip(SubSeq(text, 1, Len(text) - 1))
    ELSE text

QuitWords == {<<"q", "u", "i", "t">>, <<"e", "x", "i", "t">>, <<"q">>}
HelpWord == <<"h", "e", "l", "p">>
ConfigWord == <<"c", "o", "n", "f", "i", "g">>

\* Command comparing the line as typed, without lower().
CommandCaseSensitive(user_input) ==
    IF user_input \in QuitWords THEN "quit"
    ELSE IF user_input = HelpWord THEN "help"
    ELSE IF user_input = ConfigWord THEN "config"
    ELSE IF user_input = <<>> THEN "blank"
    ELSE "query"

\* The if / elif chain of the loop, on the stripped line.
Command(user_input) ==
    IF Lower(user_input) \in QuitWords THEN "quit"
    ELSE IF Lower(user_input) = HelpWord THEN "help"
    ELSE IF Lower(user_input) = ConfigWord THEN "config"
    ELSE IF user_input = <<>> THEN "blank"
    ELSE "query"

\* What input() may return.
Lines == {<<"q">>, <<" ", "E", "X", "I", "T", "\n">>, <<"Q", "u", "i", "t">>,
          <<"H", "e", "l", "p">>, <<"c", "o", "n", "f", "i", "g", " ">>,
          <<>>, <<" ", "\t">>, <<" ", "H", "i", " ">>}

Banner == <<"Deep Agent with Ollama CLI", "\n", "=====", "\n">>
Prompt == <<"\nYou: ">>
Goodbye == <<"Goodbye!", "\n">>
HelpText == <<"Available commands:", "\n">>
ConfigText == <<"Deep Agent with Ollama Configuration:", "\n">>
AgentPrefix == <<"Agent: ">>
ResponsePrefix == <<"Response: ">>
ErrorMarker == <<"(x) Error: ">>
InteractiveHeader == <<"Interactive Chat Mode", "\n">>
QueryHeader(query) == <<"Query: ">> \o query \o <<"\n">>

ArgSets == [config : BOOLEAN, validate : BOOLEAN, query : {NoQuery, <<"H", "i">>},
            no_stream : BOOLEAN, show_tools : BOOLEAN]

\* The snapshots and exceptions a turn under the command line draws from.
CliMessages == {AIMessage(<<"H">>, <<CalcCall>>)}
CliResponses == {<<>>,
                 <<HumanMessage(<<"H", "i">>)>>,
                 <<HumanMessage(<<"H", "i">>), AIMessage(<<"H">>, <<>>)>>}

\* main(), after parse_args() and print_banner().
CliInit ==
    /\ messages = <<>>
    /\ chunks = <<>>
    /\ pc = "idle"
    /\ failure = NoFailure
    /\ frags = [s \in BOOLEAN |-> <<>>]
    /\ reply = NoReply
    /\ args \in ArgSets
    /\ cli = "main"
    /\ agent = "none"
    /\ stdout = Banner
    /\ exit_code = <<>>
    /\ reads = 0
    /\ lines = <<>>
    /\ queries = <<>>
    /\ event = "start"
    /\ NoToolCall

\* agent.astream_chat(user_input): a new generator on a new turn.
StartTurn(user_input) ==
    /\ messages' = <<HumanMessage(user_input)>>
    /\ chunks' = <<>>
    /\ pc' = "streaming"
    /\ failure' = NoFailure
    /\ frags' = [s \in BOOLEAN |-> <<>>]
    /\ queries' = Append(queries, user_input)

\* sys.exit(code), or main() returning (code 0).
Exit(code) ==
    /\ cli' = "exited"
    /\ exit_code' = <<code>>

\* if args.config: Config.print_config(); return
ShowConfig ==
    /\ cli = "main"
    /\ args.config
    /\ stdout' = stdout \o ConfigText
    /\ Exit(0)
    /\ event' = "config_shown"
    /\ UNCHANGED <<rvars, args, agent, reads, lines, queries>>

\* Validate without sys.exit(1): a failed check falls to the return.
ValidateNoExit(reachable) ==
    /\ cli = "main"
    /\ ~args.config
    /\ args.validate
    /\ IF reachable
       THEN /\ stdout' = stdout \o <<"Configuration is valid", "\n">>
            /\ event' = "validated"
       ELSE /\ stdout' = stdout \o <<"Configuration validation failed: ",
                                     "Cannot connect to Ollama server", "\n">>
            /\ event' = "validation_failed"
    /\ cli' = "exited"
    /\ exit_code' = <<0>>
    /\ UNCHANGED <<rvars, args, agent, reads, lines, queries>>

\* if args.validate: Config.validate() either returns or raises ValueError
Validate(reachable) ==
    /\ cli = "main"
    /\ ~args.config
    /\ args.validate
    /\ IF reachable
       THEN /\ stdout' = stdout \o <<"Configuration is valid", "\n">>
            /\ Exit(0)
            /\ event' = "validated"
       ELSE /\ stdout' = stdout \o <<"Configuration validation failed: ",
                                     "Cannot connect to Ollama server", "\n">>
            /\ Exit(1)
            /\ event' = "validation_failed"
    /\ UNCHANGED <<rvars, args, agent, reads, lines, queries>>

\* agent = DeepAgent(...), then asyncio.run of the mode up to its first wait.
CreateAgent(constructed) ==
    /\ cli = "main"
    /\ ~args.config
    /\ ~args.validate
    /\ IF ~constructed
       THEN /\ stdout' = stdout \o <<"Initializing agent", "\n",
                                     "Failed to initialize agent: ", "bad model", "\n">>
            /\ Exit(1)
            /\ event' = "init_failed"
            /\ UNCHANGED <<rvars, agent, queries>>
       ELSE /\ agent' = "ready"
            /\ event' = "initialized"
            /\ exit_code' = exit_code
            /\ IF args.query = NoQuery
               THEN /\ stdout' = stdout \o <<"Initializing agent", "\n",
                                             "Agent initialized successfully", "\n">>
                                        \o InteractiveHeader
                    /\ cli' = "prompt"
                    /\ UNCHANGED <<rvars, queries>>
               ELSE IF args.no_stream
               THEN /\ stdout' = stdout \o <<"Initializing agent", "\n",
                                             "Agent initialized successfully", "\n">>
                                        \o QueryHeader(args.query)
                    /\ cli' = "blocking"
                    /\ queries' = Append(queries, args.query)
                    /\ UNCHANGED rvars
               ELSE /\ stdout' = stdout \o <<"Initializing agent", "\n",
                                             "Agent initialized successfully", "\n">>
                                        \o QueryHeader(args.query) \o ResponsePrefix
                    /\ cli' = "draining"
                    /\ StartTurn(args.query)
                    /\ reply' = reply
    /\ UNCHANGED <<args, reads, lines>>

\* One pass of the while loop, from input() to the first wait on the stream.
ReadLine(line) ==
    /\ cli = "prompt"
    /\ reads' = reads + 1
    /\ lines' = Append(lines, line)
    /\ LET user_input == Strip(line)
           command == Command(user_input)
       IN /\ event' = command
          /\ IF command = "quit"
             THEN /\ stdout' = stdout \o Prompt \o Goodbye
                  /\ Exit(0)
                  /\ UNCHANGED <<rvars, queries>>
             ELSE IF command = "help"
             THEN /\ stdout' = stdout \o Prompt \o HelpText
                  /\ UNCHANGED <<rvars, queries, cli, exit_code>>
             ELSE IF command = "config"
             THEN /\ stdout' = stdout \o Prompt \o ConfigText
                  /\ UNCHANGED <<rvars, queries, cli, exit_code>>
             ELSE IF command = "blank"
             THEN /\ stdout' = stdout \o Prompt
                  /\ UNCHANGED <<rvars, queries, cli, exit_code>>
             ELSE /\ stdout' = stdout \o Prompt \o AgentPrefix
                  /\ StartTurn(user_input)
                  /\ cli' = "draining"
                  /\ UNCHANGED <<reply, exit_code>>
    /\ UNCHANGED <<args, agent>>

\* input() raises an Exception (EOFError): except Exception prints it, the loop goes on.
ReadFails ==
    /\ cli = "prompt"
    /\ reads' = reads + 1
    /\ stdout' = stdout \o Prompt \o <<"\n">> \o ErrorMarker
                        \o <<"EOF when reading a line", "\n">>
    /\ event' = "read_error"
    /\ UNCHANGED <<rvars, args, cli, agent, exit_code, lines, queries>>

\* KeyboardInterrupt in input(): except KeyboardInterrupt prints and breaks.
ReadInterrupt ==
    /\ cli = "prompt"
    /\ reads' = reads + 1
    /\ stdout' = stdout \o Prompt \o <<"\n">> \o Goodbye
    /\ Exit(0)
    /\ event' = "interrupt"
    /\ UNCHANGED <<rvars, args, agent, lines, queries>>

\* What the consumer prints for the fragments one step of the generator yields.
NewText == ConcatText(SubSeq(frags'[args.show_tools],
                             Len(frags[args.show_tools]) + 1,
                             Len(frags'[args.show_tools])))

\* The turn is over: print(), then the next pass of the loop, or the end of
\* single_query_mode and of main.
AfterTurn ==
    IF args.query = NoQuery
    THEN cli' = "prompt" /\ exit_code' = exit_code
    ELSE Exit(0)

\* async for chunk in agent.astream_chat(...): print(chunk, end="", flush=True)
DrainAppend(m) ==
    /\ cli = "draining"
    /\ EmitAppend(m)
    /\ stdout' = stdout \o NewText
    /\ event' = "chunk"
    /\ UNCHANGED <<args, cli, agent, exit_code, reads, lines, queries>>

DrainSame ==
    /\ cli = "draining"
    /\ EmitSame
    /\ stdout' = stdout \o NewText
    /\ event' = "chunk"
    /\ UNCHANGED <<args, cli, agent, exit_code, reads, lines, queries>>

\* The stream ends and the generator returns.
DrainEnd ==
    /\ cli = "draining"
    /\ Complete
    /\ stdout' = stdout \o <<"\n">>
    /\ AfterTurn
    /\ event' = "turn_done"
    /\ UNCHANGED <<args, agent, reads, lines, queries>>

\* The runtime raises: the generator yields the error fragment and returns.
DrainAgentError(reason) ==
    /\ cli = "draining"
    /\ Fail(reason)
    /\ stdout' = stdout \o NewText \o <<"\n">>
    /\ AfterTurn
    /\ event' = "agent_error"
    /\ UNCHANGED <<args, agent, reads, lines, queries>>

\* DrainRaises without the except Exception clause: the exception ends the process.
DrainRaisesUncaught(reason) ==
    /\ cli = "draining"
    /\ pc = "streaming"
    /\ pc' = "closed"
    /\ stdout' = stdout \o <<"Traceback", reason, "\n">>
    /\ cli' = "exited"
    /\ exit_code' = <<1>>
    /\ event' = "drain_raised"
    /\ UNCHANGED <<messages, chunks, failure, frags, reply,
                   args, agent, reads, lines, queries>>

\* An Exception is raised in the loop body (by print): except Exception prints it.
DrainRaises(reason) ==
    /\ cli = "draining"
    /\ pc = "streaming"
    /\ pc' = "closed"
    /\ stdout' = stdout \o (IF args.query = NoQuery THEN <<"\n">> ELSE <<>>)
                        \o ErrorMarker \o <<reason, "\n">>
    /\ AfterTurn
    /\ event' = "drain_raised"
    /\ UNCHANGED <<messages, chunks, failure, frags, reply,
                   args, agent, reads, lines, queries>>

\* DrainInterrupt with the interrupt swallowed: the loop keeps draining.
DrainInterruptSwallowed ==
    /\ cli = "draining"
    /\ pc = "streaming"
    /\ event' = "interrupt"
    /\ UNCHANGED <<messages, chunks, pc, failure, frags, reply,
                   args, cli, agent, stdout, exit_code, reads, lines, queries>>

\* An interrupt while draining. Under asyncio.run it reaches the coroutine
\* either as KeyboardInterrupt, which interactive_mode catches (goodbye, break)
\* and single_query_mode does not, or as the cancellation of the task, which
\* neither except clause catches. Either way the generator is closed.
DrainInterrupt ==
    /\ cli = "draining"
    /\ pc = "streaming"
    /\ pc' = "closed"
    /\ event' = "interrupt"
    /\ \/ /\ args.query = NoQuery
          /\ stdout' = stdout \o <<"\n">> \o Goodbye
          /\ Exit(0)
       \/ /\ stdout' = stdout
          /\ cli' = "killed"
          /\ exit_code' = exit_code
    /\ UNCHANGED <<messages, chunks, failure, frags, reply,
                   args, agent, reads, lines, queries>>

\* response = await agent.achat(query); print(f"Response: {response}")
BlockingTurn(response, raised) ==
    /\ cli = "blocking"
    /\ messages' = response
    /\ failure' = raised
    /\ reply' = ChatResult(response, raised)
    /\ stdout' = stdout \o ResponsePrefix \o ChatResult(response, raised) \o <<"\n">>
    /\ Exit(0)
    /\ event' = "blocking_done"
    /\ UNCHANGED <<chunks, pc, frags, args, agent, reads, lines, queries>>

CliNext ==
    \/ ShowConfig /\ UNCHANGED tvars
    \/ \E reachable \in BOOLEAN : Validate(reachable) /\ UNCHANGED tvars
    \/ \E constructed \in BOOLEAN : CreateAgent(constructed) /\ UNCHANGED tvars
    \/ \E line \in Lines : reads < MaxInputs /\ ReadLine(line) /\ UNCHANGED tvars
    \/ reads < MaxInputs /\ ReadFails /\ UNCHANGED tvars
    \/ reads < MaxInputs /\ ReadInterrupt /\ UNCHANGED tvars
    \/ \E m \in CliMessages :
          Len(chunks) < MaxCliSnaps /\ DrainAppend(m) /\ UNCHANGED tvars
    \/ Len(chunks) < MaxCliSnaps /\ DrainSame /\ UNCHANGED tvars
    \/ DrainEnd /\ UNCHANGED tvars
    \/ \E r \in Reasons : DrainAgentError(r) /\ UNCHANGED tvars
    \/ \E r \in Reasons : DrainRaises(r) /\ UNCHANGED tvars
    \/ DrainInterrupt /\ UNCHANGED tvars
    \/ \E response \in CliResponses, raised \in {NoFailure} \cup Reasons :
          BlockingTurn(response, raised) /\ UNCHANGED tvars

SpecCli == CliInit /\ [][CliNext]_vars

\* ------------------------------------------------------------------ one drained turn

\* The snapshots a drained turn draws from.
DrainMessages == {AIMessage(<<"H">>, <<SearchCall, TimeCall>>),
                  AIMessage(<<>>, <<CalcCall>>),
                  ToolMessage("calculate", <<"4">>),
                  ToolMessage("web_search", <<"o", "k">>)}

\* What has been printed when the first turn starts: by main and
\* single_query_mode up to "Response: ", or by main and interactive_mode up to
\* "Agent: ".
StartedText(a) ==
    Banner \o <<"Initializing agent", "\n", "Agent initialized successfully", "\n">>
           \o (IF a.query = NoQuery
               THEN InteractiveHeader \o Prompt \o AgentPrefix
               ELSE QueryHeader(a.query) \o ResponsePrefix)

\* The command line at the first wait on the stream of its first turn: in
\* single-query mode after the agent was created, in interactive mode after
\* the line " Hi " was read.
DrainInit ==
    /\ args \in {a \in ArgSets : ~a.config /\ ~a.validate /\ ~a.no_stream}
    /\ messages = <<HumanMessage(<<"H", "i">>)>>
    /\ queries = << <<"H", "i">> >>
    /\ chunks = <<>>
    /\ pc = "streaming"
    /\ failure = NoFailure
    /\ frags = [s \in BOOLEAN |-> <<>>]
    /\ reply = NoReply
    /\ cli = "draining"
    /\ agent = "ready"
    /\ stdout = StartedText(args)
    /\ exit_code = <<>>
    /\ reads = (IF args.query = NoQuery THEN 1 ELSE 0)
    /\ lines = (IF args.query = NoQuery THEN << <<" ", "H", "i", " ">> >> ELSE <<>>)
    /\ event = (IF args.query = NoQuery THEN "query" ELSE "initialized")
    /\ NoToolCall

DrainNext ==
    \/ \E m \in DrainMessages :
          Len(chunks) < MaxSnaps /\ DrainAppend(m) /\ UNCHANGED tvars
    \/ Len(chunks) < MaxSnaps /\ DrainSame /\ UNCHANGED tvars
    \/ DrainEnd /\ UNCHANGED tvars
    \/ \E r \in Reasons : DrainAgentError(r) /\ UNCHANGED tvars
    \/ \E r \in Reasons : DrainRaises(r) /\ UNCHANGED tvars
    \/ DrainInterrupt /\ UNCHANGED tvars

SpecDrain == DrainInit /\ [][DrainNext]_vars

\* ------------------------------------------------------------------ the calculate tool

\* allowed_chars without the restriction: letters pass too.
AllowedCharsWithLetters ==
    {"0", "1", "2", "3", "4", "5", "6", "7", "8", "9",
     "+", "-", "*", "/", "(", ")", ".", ",", " ",
     "i", "m", "p", "o", "r", "t", "s"}

\* allowed_chars = set("0123456789+-*/()., ")
AllowedChars == {"0", "1", "2", "3", "4", "5", "6", "7", "8", "9",
                 "+", "-", "*", "/", "(", ")", ".", ",", " "}

\* all(c in allowed_chars for c in expression)
AllAllowed(expr) == \A i \in 1..Len(expr) : expr[i] \in AllowedChars

RejectionText == <<"Error: Only basic mathematical operations are allowed">>
ResultPrefix == <<"Result: ">>
CalcErrorPrefix == <<"Error calculating expression: ">>

IsDigit(c) == \E d \in 1..10 : Digit[d] = c
DigitValue(c) == (CHOOSE d \in 1..10 : Digit[d] = c) - 1

\* str(n) of an integer.
RECURSIVE StrNat(_)
StrNat(n) == IF n < 10 THEN <<Digit[n + 1]>>
             ELSE StrNat(n \div 10) \o <<Digit[(n % 10) + 1]>>
Str(n) == IF n < 0 THEN <<"-">> \o StrNat(0 - n) ELSE StrNat(n)

\* eval(expression), for the expressions made of integer literals, unary and
\* binary + and -, binary *, parentheses and spaces: Python's grammar and
\* arithmetic on them.  A parse is [ok, val, pos]: pos is the first
\* character not consumed.
NoParse == [ok |-> FALSE, val |-> 0, pos |-> 0]

RECURSIVE SkipSpaces(_, _)
SkipSpaces(expr, p) ==
    IF p <= Len(expr) /\ expr[p] = " " THEN SkipSpaces(expr, p + 1) ELSE p

RECURSIVE DigitsEnd(_, _)
DigitsEnd(expr, p) ==
    IF p <= Len(expr) /\ IsDigit(expr[p]) THEN DigitsEnd(expr, p + 1) ELSE p

RECURSIVE NumberValue(_)
NumberValue(digits) ==
    IF digits = <<>> THEN 0
    ELSE 10 * NumberValue(SubSeq(digits, 1, Len(digits) - 1)) + DigitValue(Last(digits))

\* A decimal literal; a leading zero is allowed only when every digit is zero.
ParseNumber(expr, p) ==
    LET e == DigitsEnd(expr, p)
        run == SubSeq(expr, p, e - 1)
    IN IF e = p THEN NoParse
       ELSE IF Len(run) > 1 /\ run[1] = "0" /\ \E i \in 1..Len(run) : run[i] # "0"
       THEN NoParse
       ELSE [ok |-> TRUE, val |-> NumberValue(run), pos |-> e]

RECURSIVE ParseSum(_, _), SumRest(_, _, _), ParseTerm(_, _), TermRest(_, _, _),
          ParseFactor(_, _), ParseAtom(_, _)

ParseAtom(expr, p0) ==
    LET p == SkipSpaces(expr, p0)
    IN IF p > Len(expr) THEN NoParse
       ELSE IF expr[p] = "("
       THEN LET r == ParseSum(expr, p + 1)
                q == SkipSpaces(expr, r.pos)
            IN IF r.ok /\ q <= Len(expr) /\ expr[q] = ")"
               THEN [ok |-> TRUE, val |-> r.val, pos |-> q + 1]
               ELSE NoParse
       ELSE IF IsDigit(expr[p]) THEN ParseNumber(expr, p)
       ELSE NoParse

ParseFactor(expr, p0) ==
    LET p == SkipSpaces(expr, p0)
    IN IF p <= Len(expr) /\ expr[p] \in {"+", "-"}
       THEN LET r == ParseFactor(expr, p + 1)
            IN IF ~r.ok THEN NoParse
               ELSE [r EXCEPT !.val = IF expr[p] = "-" THEN 0 - r.val ELSE r.val]
       ELSE ParseAtom(expr, p)

TermRest(expr, acc, p0) ==
    LET p == SkipSpaces(expr, p0)
    IN IF p <= Len(expr) /\ expr[p] = "*"
       THEN LET r == ParseFactor(expr, p + 1)
            IN IF r.ok THEN TermRest(expr, acc * r.val, r.pos) ELSE NoParse
       ELSE [ok |-> TRUE, val |-> acc, pos |-> p]

ParseTerm(expr, p) ==
    LET r == ParseFactor(expr, p)
    IN IF r.ok THEN TermRest(expr, r.val, r.pos) ELSE NoParse

SumRest(expr, acc, p0) ==
    LET p == SkipSpaces(expr, p0)
    IN IF p <= Len(expr) /\ expr[p] \in {"+", "-"}
       THEN LET r == ParseTerm(expr, p + 1)
            IN IF r.ok
               THEN SumRest(expr, IF expr[p] = "+" THEN acc + r.val ELSE acc - r.val,
                            r.pos)
               ELSE NoParse
       ELSE [ok |-> TRUE, val |-> acc, pos |-> p]

ParseSum(expr, p) ==
    LET r == ParseTerm(expr, p)
    IN IF r.ok THEN SumRest(expr, r.val, r.pos) ELSE NoParse

Parse(expr) ==
    LET r == ParseSum(expr, 1)
    IN IF r.ok /\ r.pos = Len(expr) + 1 THEN r ELSE NoParse

\* Expressions with what the parser above leaves out: floats, tuples,
\* division, the power operator and the empty tuple.
BeyondArithmetic(expr) ==
    \E i \in 1..Len(expr) :
        \/ expr[i] \in {".", ",", "/"}
        \/ expr[i] = "*" /\ i < Len(expr) /\ expr[i + 1] = "*"
        \/ /\ expr[i] = "("
           /\ SkipSpaces(expr, i + 1) <= Len(expr)
           /\ expr[SkipSpaces(expr, i + 1)] = ")"

\* What eval(expression) can do: return a value (its str) or raise an
\* Exception (its str).  Integer arithmetic has one outcome; an expression
\* of the allowed characters that is neither that nor BeyondArithmetic is a
\* SyntaxError or a call of a number (TypeError); for the others eval may
\* return or raise.
eval(expr) ==
    IF Parse(expr).ok
    THEN {[raised |-> FALSE, text |-> Str(Parse(expr).val)]}
    ELSE IF BeyondArithmetic(expr)
    THEN {[raised |-> FALSE, text |-> <<"<value>">>],
          [raised |-> TRUE, text |-> <<"<exception>">>]}
    ELSE {[raised |-> TRUE, text |-> <<"<exception>">>]}

ExprChars == {"2", "0", "+", "-", "*", "(", ")", " ", "/", "i"}
ScenarioA == <<"2", " ", "+", " ", "2", " ", "*", " ", "3">>
ImportOs == <<"i", "m", "p", "o", "r", "t", " ", "o", "s">>
Expressions ==
    UNION {[1..k -> ExprChars] : k \in 0..MaxExpr}
        \cup {ScenarioA, ImportOs, <<"(", "2", "+", "3", ")", "*", "-", "2">>,
              <<"2", "*", "*", "3">>, <<"1", ",", "2">>, <<"0", "2">>, <<"1", ".", "5">>}

\* The tool was called with some expression.
CalcInit ==
    /\ expression \in Expressions
    /\ calc_pc = "called"
    /\ evaluated = FALSE
    /\ result = NoReply
    /\ messages = <<>>
    /\ chunks = <<>>
    /\ pc = "idle"
    /\ failure = NoFailure
    /\ frags = [s \in BOOLEAN |-> <<>>]
    /\ reply = NoReply
    /\ args = [config |-> FALSE, validate |-> FALSE, query |-> NoQuery,
               no_stream |-> FALSE, show_tools |-> FALSE]
    /\ cli = "off"
    /\ agent = "ready"
    /\ stdout = <<>>
    /\ exit_code = <<>>
    /\ reads = 0
    /\ lines = <<>>
    /\ queries = <<>>
    /\ event = "start"

\* The allowlist refuses the expression before eval.
CalcRejects ==
    /\ calc_pc = "called"
    /\ ~AllAllowed(expression)
    /\ result' = RejectionText
    /\ calc_pc' = "returned"
    /\ UNCHANGED <<expression, evaluated>>

\* result = eval(expression); return f"Result: {result}", or the except clause.
CalcEvaluates(outcome) ==
    /\ calc_pc = "called"
    /\ AllAllowed(expression)
    /\ outcome \in eval(expression)
    /\ evaluated' = TRUE
    /\ result' = IF outcome.raised THEN CalcErrorPrefix \o outcome.text
                 ELSE ResultPrefix \o outcome.text
    /\ calc_pc' = "returned"
    /\ UNCHANGED expression

Outcomes == [raised : BOOLEAN, text : {<<"<value>">>, <<"<exception>">>}]
                \cup {[raised |-> FALSE, text |-> Str(Parse(expression).val)]}

CalcNext ==
    \/ CalcRejects /\ UNCHANGED <<rvars, cvars>>
    \/ \E outcome \in Outcomes : CalcEvaluates(outcome) /\ UNCHANGED <<rvars, cvars>>

SpecCalc == CalcInit /\ [][CalcNext]_vars

\* ------------------------------------------------------------------ what a turn yielded

OfKind(fs, kinds) == SelectSeq(fs, LAMBDA f : f.kind \in kinds)
ToolKinds == {"tool_call", "tool_output"}
FragsOf(s, snap) == SelectSeq(frags[s], LAMBDA f : f.snap = snap)

IsPrefix(a, b) == Len(a) <= Len(b) /\ SubSeq(b, 1, Len(a)) = a

AILast(chunk) == chunk # <<>> /\ IsAIMessage(Last(chunk))
\* The snapshots the loop body did not skip, in order.
AIChunks == SelectSeq(chunks, AILast)
HasToolResult(chunk) == \E i \in 1..Len(chunk) : IsToolResult(chunk[i])

\* The fragments of a whole snapshot sequence, computed in one pass.
RECURSIVE RenderTurn(_, _, _)
RenderTurn(s, cs, upto) ==
    IF upto = 0 THEN <<>>
    ELSE RenderTurn(s, cs, upto - 1) \o ProcessChunk(s, cs[upto], upto)

\* The content of the last AssistantMessage of a message list, "" if none.
RECURSIVE FinalAssistantContent(_)
FinalAssistantContent(msgs) ==
    IF msgs = <<>> THEN <<>>
    ELSE IF IsAIMessage(Last(msgs)) THEN Last(msgs).content
         ELSE FinalAssistantContent(SubSeq(msgs, 1, Len(msgs) - 1))

\* ------------------------------------------------------------------ claims

\* C1 (as stated): when the content of one AssistantMessage only grows over
\* the snapshots of a turn (each later content extends the earlier one, as
\* "Hel" then "Hello"), the content fragments concatenate to exactly the
\* final AssistantMessage content.
OnlyGrows ==
    \A i, j \in 1..Len(AIChunks) :
        i < j => /\ Len(AIChunks[i]) = Len(AIChunks[j])
                 /\ IsPrefix(Last(AIChunks[i]).content, Last(AIChunks[j]).content)
                 /\ Len(Last(AIChunks[i]).content) < Len(Last(AIChunks[j]).content)
C1_NoDuplicateContent ==
    \A s \in BOOLEAN :
        (AIChunks # <<>> /\ OnlyGrows) =>
            ConcatText(OfKind(frags[s], {"content"})) = Last(Last(AIChunks)).content

\* C2 (as stated): with show_tools enabled, no ToolCall (message position, call
\* position) has two tool-invocation fragments and no ToolResultMessage
\* (message position) has two tool-output fragments.
C2_ToolAnnouncedOnce ==
    LET fs == frags[TRUE]
    IN \A i, j \in 1..Len(fs) :
          (i < j /\ fs[i].kind \in ToolKinds /\ fs[i].kind = fs[j].kind)
              => <<fs[i].msg, fs[i].call>> # <<fs[j].msg, fs[j].call>>

\* C3: on the same snapshots, the session with show_tools disabled yields no
\* tool-invocation and no tool-output fragment, and yields exactly what the
\* session with show_tools enabled yields once its tool fragments are removed.
C3_Gating ==
    /\ OfKind(frags[FALSE], ToolKinds) = <<>>
    /\ frags[FALSE] = SelectSeq(frags[TRUE], LAMBDA f : f.kind \notin ToolKinds)
C3_Witness ==
    /\ OfKind(frags[TRUE], {"tool_call"}) # <<>>
    /\ OfKind(frags[TRUE], {"tool_output"}) # <<>>
    /\ OfKind(frags[FALSE], {"content"}) # <<>>
    /\ Len(chunks) >= 2

\* C4: when the runtime fails after k snapshots, the generator has yielded
\* every fragment of those k snapshots, then one error fragment, and has
\* returned: no exception left it.
C4_FailureContained ==
    failure # NoFailure =>
        /\ pc = "done"
        /\ \A s \in BOOLEAN :
              /\ Len(frags[s]) >= 1
              /\ SubSeq(frags[s], 1, Len(frags[s]) - 1)
                    = RenderTurn(s, chunks, Len(chunks))
              /\ Last(frags[s]).kind = "error"
              /\ Last(frags[s]).text = ErrorPrefix \o <<failure>>
              /\ Len(OfKind(frags[s], {"error"})) = 1
C4_Witness ==
    /\ failure # NoFailure
    /\ Len(chunks) >= 2
    /\ Len(frags[TRUE]) >= 3
    /\ Len(frags[FALSE]) >= 2

\* C5 (as stated): whenever the turn completes without a runtime failure, the
\* blocking path returns the final AssistantMessage content of the turn and
\* nothing else.
C5_BlockingIsFinalContent ==
    (reply # NoReply /\ failure = NoFailure) => reply = FinalAssistantContent(messages)

\* C5 (amended): without a runtime failure the blocking path returns the
\* content of the final snapshot's last message when that is an
\* AssistantMessage (the text of the stream's last content fragment, when not
\* empty) and the fixed apology text when it is not; on a runtime failure it
\* returns the text of the stream's final error fragment.
C5_BlockingMatchesStream ==
    reply # NoReply =>
        IF failure # NoFailure
        THEN \A s \in BOOLEAN : reply = Last(frags[s]).text
        ELSE IF AILast(messages)
             THEN /\ reply = Last(messages).content
                  /\ (reply # <<>> /\ chunks # <<>>) =>
                        \A s \in BOOLEAN :
                            /\ Last(frags[s]).kind = "content"
                            /\ Last(frags[s]).text = reply
             ELSE reply = Apology
C5_Witness ==
    /\ reply = Apology
    /\ failure = NoFailure
    /\ FinalAssistantContent(messages) # <<>>

\* C6: a snapshot whose last AssistantMessage has empty content yields no
\* content fragment: nothing with show_tools disabled, tool fragments only
\* with it enabled; when it has no tool calls either, no tool-invocation
\* fragment, and nothing at all unless the snapshot holds tool results.  A
\* turn that ends without failure gets no error and no placeholder fragment.
C6_EmptyTurnLegality ==
    /\ \A i \in 1..Len(chunks) :
          (AILast(chunks[i]) /\ Last(chunks[i]).content = <<>>) =>
              /\ FragsOf(FALSE, i) = <<>>
              /\ OfKind(FragsOf(TRUE, i), ToolKinds) = FragsOf(TRUE, i)
              /\ Len(OfKind(FragsOf(TRUE, i), {"tool_call"}))
                    = Len(Last(chunks[i]).tool_calls)
              /\ ~HasToolResult(chunks[i]) =>
                    OfKind(FragsOf(TRUE, i), {"tool_output"}) = <<>>
    /\ (failure = NoFailure
          /\ \A i \in 1..Len(AIChunks) : Last(AIChunks[i]).content = <<>>) =>
          \A s \in BOOLEAN : OfKind(frags[s], {"content", "error"}) = <<>>
C6_Witness ==
    /\ pc = "done"
    /\ failure = NoFailure
    /\ AILast(messages)
    /\ Last(messages).content = <<>>
    /\ Len(Last(messages).tool_calls) = 2
    /\ \A i \in 1..Len(chunks) : AILast(chunks[i])
    /\ frags[FALSE] = <<>>
    /\ Len(frags[TRUE]) >= 2

\* C7: a tool-output fragment shows the output of its ToolResultMessage
\* unchanged when it has at most 100 characters, and its first 100 characters
\* followed by "..." when it has more.
Shown(f) == SubSeq(f.text, 4, Len(f.text) - 1)
C7_Truncation ==
    \A i \in 1..Len(frags[TRUE]) :
        LET f == frags[TRUE][i]
            output == chunks[f.snap][f.msg].content
        IN f.kind = "tool_output" =>
              /\ Len(output) <= 100 => Shown(f) = output
              /\ Len(output) > 100 =>
                    /\ Len(Shown(f)) = 101
                    /\ SubSeq(Shown(f), 1, 100) = SubSeq(output, 1, 100)
                    /\ Shown(f)[101] = "..."
C7_Witness ==
    /\ \E i \in 1..Len(frags[TRUE]) :
          /\ frags[TRUE][i].kind = "tool_output"
          /\ Len(chunks[frags[TRUE][i].snap][frags[TRUE][i].msg].content) = LongLen
          /\ Len(Shown(frags[TRUE][i])) = 101
    /\ \E i \in 1..Len(frags[TRUE]) :
          /\ frags[TRUE][i].kind = "tool_output"
          /\ Len(Shown(frags[TRUE][i])) = ShortLen

\* ------------------------------------------------------------------ claims about the command line

Interactive == args.query = NoQuery
\* The last n tokens printed.
Printed(n) == SubSeq(stdout, Len(stdout) - n + 1, Len(stdout))
Count(seq, tok) == Len(SelectSeq(seq, LAMBDA t : t = tok))
\* What a line is, after trimming and lowering.
LineClass(line) ==
    LET word == Lower(Strip(line))
    IN IF word \in {<<"q", "u", "i", "t">>, <<"e", "x", "i", "t">>, <<"q">>} THEN "quit"
       ELSE IF word = <<"h", "e", "l", "p">> THEN "help"
       ELSE IF word = <<"c", "o", "n", "f", "i", "g">> THEN "config"
       ELSE IF \A i \in 1..Len(line) : line[i] \in Whitespace THEN "blank"
       ELSE "query"
LineClasses == [i \in 1..Len(lines) |-> LineClass(lines[i])]

\* C8: in interactive mode a turn that ends in a failure, reported by the
\* agent as an error fragment or raised while draining, has its error text
\* printed behind a marker and leaves the loop at the prompt; the loop ends
\* only on a quit command or an interrupt.
C8_LoopSurvives ==
    /\ (Interactive /\ event = "agent_error") =>
          /\ cli = "prompt"
          /\ exit_code = <<>>
          /\ Printed(3) = <<"Error: ", failure, "\n">>
    /\ (Interactive /\ event = "drain_raised") =>
          /\ cli = "prompt"
          /\ exit_code = <<>>
          /\ Printed(4)[1] = "\n"
          /\ Printed(4)[2] = ErrorMarker[1]
          /\ Printed(4)[3] \in Reasons
    /\ (Interactive /\ agent = "ready") =>
          /\ cli \in {"prompt", "draining", "exited", "killed"}
          /\ cli \in {"exited", "killed"} => event \in {"quit", "interrupt"}
C8_Witness ==
    /\ Interactive
    /\ Len(queries) = 2
    /\ event = "drain_raised"
    /\ cli = "prompt"
    /\ Count(stdout, "Error: ") = 1
    /\ Count(stdout, ErrorMarker[1]) = 1

\* C9: a line that is quit/exit/q after trimming and lowering ends the loop
\* with exit code 0 and nothing is printed after its goodbye; help, config
\* and a blank line print their text, start no turn and leave the loop at the
\* prompt; every other line starts one turn on the trimmed line, so the
\* queries are exactly the trimmed other lines, in order.
C9_Dispatch ==
    Interactive =>
        LET class == LineClasses
            asked == {i \in 1..Len(lines) : class[i] = "query"}
        IN /\ \A i \in 1..Len(lines) :
                 class[i] = "quit" =>
                     /\ i = Len(lines)
                     /\ cli = "exited"
                     /\ exit_code = <<0>>
                     /\ Printed(3) = Prompt \o Goodbye
                     /\ Count(stdout, Prompt[1]) = reads
           /\ Len(queries) = Cardinality(asked)
           /\ \A i \in asked :
                 queries[Cardinality({j \in asked : j <= i})] = Strip(lines[i])
           /\ event \in {"quit", "help", "config", "blank", "query"} =>
                 /\ lines # <<>>
                 /\ event = class[Len(lines)]
                 /\ event = "help" => cli = "prompt" /\ Printed(3) = Prompt \o HelpText
                 /\ event = "config" => cli = "prompt" /\ Printed(3) = Prompt \o ConfigText
                 /\ event = "blank" => cli = "prompt" /\ Printed(1) = Prompt
                 /\ event = "query" =>
                       /\ cli = "draining"
                       /\ pc = "streaming"
                       /\ chunks = <<>>
                       /\ messages = <<HumanMessage(Strip(Last(lines)))>>
C9_Witness ==
    /\ Interactive
    /\ lines = << <<" ", "H", "i", " ">>, <<" ", "E", "X", "I", "T", "\n">> >>
    /\ queries = << <<"H", "i">> >>
    /\ cli = "exited"

\* C10: with --config or --validate no agent is constructed and no turn is
\* run; the process exits with code 1 exactly when the validation check or
\* the construction of the agent failed, with the reason printed and no turn
\* run, and with code 0 otherwise.
C10_StartupOutcomes ==
    /\ (args.config \/ args.validate) =>
          /\ agent = "none"
          /\ queries = <<>>
          /\ pc = "idle"
          /\ cli \in {"main", "exited"}
    /\ cli = "exited" =>
          /\ exit_code \in {<<0>>, <<1>>}
          /\ exit_code = <<1>> <=> event \in {"validation_failed", "init_failed"}
    /\ exit_code = <<1>> =>
          /\ cli = "exited"
          /\ agent = "none"
          /\ queries = <<>>
          /\ pc = "idle"
          /\ Printed(3) \in {<<"Configuration validation failed: ",
                               "Cannot connect to Ollama server", "\n">>,
                             <<"Failed to initialize agent: ", "bad model", "\n">>}
    /\ event = "validation_failed" => (args.validate /\ ~args.config)
    /\ event = "init_failed" => (~args.validate /\ ~args.config)
C10_Witness ==
    /\ cli = "exited"
    /\ exit_code = <<1>>
    /\ event = "validation_failed"
    /\ args.query # NoQuery

\* ------------------------------------------------------------------ claims about the calculate tool

\* C11: calculate returns a text for every expression and no exception leaves
\* it; an expression with a character outside 0-9 + - * / ( ) . , and space
\* gets the rejection message and never reaches eval; any other expression
\* reaches eval and gets "Result: <value>" or an error text; "2 + 2 * 3"
\* gets the value 8.
Allowlist == {"0", "1", "2", "3", "4", "5", "6", "7", "8", "9", "+", "-", "*",
              "/", "(", ")", ".", ",", " "}
HasForbidden(expr) == \E i \in 1..Len(expr) : expr[i] \notin Allowlist
C11_CalculatorContained ==
    /\ calc_pc \in {"idle", "called", "returned"}
    /\ evaluated => ~HasForbidden(expression)
    /\ calc_pc = "returned" =>
          /\ result # NoReply
          /\ HasForbidden(expression) =>
                /\ result = <<"Error: Only basic mathematical operations are allowed">>
                /\ ~evaluated
          /\ ~HasForbidden(expression) =>
                /\ evaluated
                /\ result[1] \in {"Result: ", "Error calculating expression: "}
                /\ Len(result) >= 2
          /\ expression = ScenarioA => result = <<"Result: ", "8">>
          /\ expression = <<"(", "2", "+", "3", ")", "*", "-", "2">> =>
                result = <<"Result: ", "-", "1", "0">>
          /\ expression = <<"0", "2">> => result[1] = "Error calculating expression: "
C11_Witness ==
    /\ calc_pc = "returned"
    /\ expression = ScenarioA
    /\ result = <<"Result: ", "8">>

\* ------------------------------------------------------------------ claims about snapshots and order

\* C12: a snapshot whose last message is not an AssistantMessage yields no
\* fragment of any kind, with tools shown or not and whatever tool results it
\* holds, and the snapshot after it is processed as usual: when that one ends
\* in an AssistantMessage with content, its content fragment is yielded.
C12_NonAssistantIgnored ==
    \A i \in 1..Len(chunks) :
        ~AILast(chunks[i]) =>
            /\ \A s \in BOOLEAN : FragsOf(s, i) = <<>>
            /\ (i < Len(chunks) /\ AILast(chunks[i + 1])
                   /\ Last(chunks[i + 1]).content # <<>>) =>
                  \A s \in BOOLEAN :
                      /\ FragsOf(s, i + 1) # <<>>
                      /\ Last(FragsOf(s, i + 1)).kind = "content"
                      /\ Last(FragsOf(s, i + 1)).text = Last(chunks[i + 1]).content
C12_Witness ==
    /\ Len(chunks) = 3
    /\ ~AILast(chunks[1])
    /\ HasToolResult(chunks[1])
    /\ ~AILast(chunks[2])
    /\ AILast(chunks[3])
    /\ Len(frags[TRUE]) = 4
    /\ Len(frags[FALSE]) = 1
    /\ \A s \in BOOLEAN : \A j \in 1..Len(frags[s]) : frags[s][j].snap = 3

\* Where a kind of fragment stands in the fragments of one snapshot.
Rank(f) ==
    IF f.kind = "tool_call" THEN 1
    ELSE IF f.kind = "tool_output" THEN 2
    ELSE IF f.kind = "content" THEN 3
    ELSE 4

\* f is yielded before g by generation order.
Before(f, g) ==
    \/ f.snap < g.snap
    \/ /\ f.snap = g.snap
       /\ \/ Rank(f) < Rank(g)
          \/ f.kind = "tool_call" /\ g.kind = "tool_call" /\ f.call < g.call
          \/ f.kind = "tool_output" /\ g.kind = "tool_output" /\ f.msg < g.msg

\* The fragment is the text of the part of the snapshot it is recorded for.
FromSnapshot(f) ==
    \/ /\ f.kind = "error"
       /\ f.snap = Len(chunks) + 1
       /\ f.text = ErrorText(failure)
    \/ /\ f.kind # "error"
       /\ f.snap \in 1..Len(chunks)
       /\ f.msg \in 1..Len(chunks[f.snap])
       /\ LET m == chunks[f.snap][f.msg]
          IN \/ /\ f.kind = "tool_call"
                /\ f.msg = Len(chunks[f.snap])
                /\ f.call \in 1..Len(m.tool_calls)
                /\ f.text = UsingPrefix
                              \o <<m.tool_calls[f.call].name, "(">>
                              \o args_str(m.tool_calls[f.call].args) \o <<")\n">>
             \/ /\ f.kind = "tool_output"
                /\ m.name # ""
                /\ Len(f.text) >= 4
                /\ f.text[2] = m.name
             \/ /\ f.kind = "content"
                /\ f.msg = Len(chunks[f.snap])
                /\ f.text = m.content

\* What the command line may print once the loop over the fragments is left.
TurnEndings ==
    IF event \in {"turn_done", "agent_error"} THEN {<<"\n">>}
    ELSE IF event = "drain_raised"
    THEN {(IF Interactive THEN <<"\n">> ELSE <<>>) \o ErrorMarker \o <<r, "\n">> :
             r \in Reasons}
    ELSE IF event = "interrupt" /\ cli = "exited" THEN {<<"\n">> \o Goodbye}
    ELSE {<<>>}

\* C13: the fragments of a turn are yielded in the order of the snapshots they
\* come from, and for one snapshot the tool invocations come first, in the
\* order of the calls, then the tool outputs, in the order of the messages,
\* then the content; the command line prints the texts of the fragments in
\* the order they are yielded, with nothing between them.
C13_OrderPreserved ==
    /\ \A s \in BOOLEAN :
          /\ \A i \in 1..Len(frags[s]) : FromSnapshot(frags[s][i])
          /\ \A i, j \in 1..Len(frags[s]) :
                 i < j => Before(frags[s][i], frags[s][j])
    /\ \E e \in TurnEndings :
          stdout = StartedText(args) \o ConcatText(frags[args.show_tools]) \o e
C13_Witness ==
    /\ Interactive
    /\ args.show_tools
    /\ event = "turn_done"
    /\ Len(chunks) = 3
    /\ Len(frags[TRUE]) = 6
    /\ [i \in 1..6 |-> frags[TRUE][i].kind] =
          <<"tool_call", "tool_call", "tool_output", "content",
            "tool_call", "tool_output">>
    /\ [i \in 1..6 |-> frags[TRUE][i].snap] = <<2, 2, 2, 2, 3, 3>>

\* C14: the step on which an interrupt arrives while a turn is drained pulls
\* no snapshot, yields no fragment, closes the generator and leaves the loop
\* (the process ends, by the goodbye or by the interrupt itself); no step
\* after it pulls a snapshot either, and no step removes anything that was
\* printed.
C14_Cancellation ==
    [][/\ IsPrefix(stdout, stdout')
       /\ (event = "interrupt" \/ event' = "interrupt") =>
             /\ chunks' = chunks
             /\ messages' = messages
             /\ frags' = frags
       /\ event' = "interrupt" =>
             /\ pc' = "closed"
             /\ cli' \in {"exited", "killed"}
             /\ Interactive \/ cli' = "killed"
             /\ IsPrefix(StartedText(args) \o ConcatText(frags[args.show_tools]),
                         stdout')]_vars
C14_Witness ==
    /\ event = "interrupt"
    /\ ~Interactive
    /\ cli = "killed"
    /\ args.show_tools
    /\ Len(chunks) = 2
    /\ Len(frags[TRUE]) = 4
    /\ stdout = StartedText(args) \o ConcatText(frags[TRUE])

====
